---------------------------- MODULE Spec2Model ----------------------------
(***************************************************************************)
(* Model of the grocery sales pipeline:                                    *)
(*   src/data_preprocessing.py    load_csv, recalculate_total_price, the   *)
(*                                five create_*_table builders and main    *)
(*   src/customer_segmentation.py calculate_rfm and cluster_customers      *)
(*                                                                         *)
(* A table (DataFrame) is a sequence of rows; a row is a record from       *)
(* column names to cells.  A cell is <<>> when the value is missing        *)
(* (NaN / NaT / None) and <<v>> when it holds the value v.  Amounts are    *)
(* integers.                                                               *)
(***************************************************************************)
EXTENDS Integers, Sequences, FiniteSets, TLC

VARIABLES
    pc,         \* position of the running script
    sales,      \* the sales table as loaded
    products,   \* the products table as loaded
    priced,     \* the table returned by recalculate_total_price
    builder,    \* the create_*_table function that is running
    frame,      \* the builder's local table (its variable sales)
    unique,     \* no table joined so far holds a join key twice
    csv,        \* what save_csv has written
    df,         \* the table handed to calculate_rfm
    rfm,        \* the table returned by calculate_rfm
    n_clusters, \* the cluster count handed to cluster_customers
    segmented,  \* what cluster_customers returned or raised
    file,       \* the file load_csv is asked for
    loaded,     \* what load_csv returned
    fs,         \* the source files in the data folder, by table
    outputs     \* the builders whose CSV has been written

vars == <<pc, sales, products, priced, builder, frame, unique, csv,
          df, rfm, n_clusters, segmented, file, loaded, fs, outputs>>

----------------------------------------------------------------------------
(* Cells and tables *)

Null == <<>>

IsNull(c) == c = Null

Val(c) == c[1]

Cell(v) == <<v>>

SeqsUpTo(S, n) == UNION {[1..k -> S] : k \in 0..n}

RECURSIVE Flatten(_)
Flatten(ss) == IF ss = <<>> THEN <<>> ELSE Head(ss) \o Flatten(Tail(ss))

\* df[cols]: the table restricted to the columns cols
Project(t, cols) == [i \in 1..Len(t) |-> [c \in cols |-> t[i][c]]]

\* pandas arithmetic on cells: a missing operand gives a missing result
CellMul(a, b) == IF IsNull(a) \/ IsNull(b) THEN Null ELSE Cell(Val(a) * Val(b))

CellSub(a, b) == IF IsNull(a) \/ IsNull(b) THEN Null ELSE Cell(Val(a) - Val(b))

\* Series.fillna(v)
FillNa(c, v) == IF IsNull(c) THEN Cell(v) ELSE c

----------------------------------------------------------------------------
(* load_csv(file_name).  A file is a sequence of lines and a line a        *)
(* sequence of tokens: a delimiter character or a run of other characters. *)
(* pd.read_csv splits every line on the delimiter; the first line names    *)
(* the columns.  The first data line may hold more fields than the header  *)
(* (the surplus becomes the index); a later line with more fields than the *)
(* lines before it is a ParserError.                                       *)

NoFile == [exists |-> FALSE, lines |-> <<>>]

FileOf(lines) == [exists |-> TRUE, lines |-> lines]

RECURSIVE Split(_, _)
Split(line, sep) ==
    IF line = <<>> THEN << <<>> >>
    ELSE LET rest == Split(Tail(line), sep)
         IN  IF Head(line) = sep THEN << <<>> >> \o rest
             ELSE << <<Head(line)>> \o Head(rest) >> \o Tail(rest)

Failure(e) == [ok |-> FALSE, error |-> e]

Width(f, i, sep) == Len(Split(f.lines[i], sep))

Larger(a, b) == IF a > b THEN a ELSE b

ReadCsv(f, sep) ==
    IF ~f.exists THEN Failure("FileNotFoundError")
    ELSE IF f.lines = <<>> THEN Failure("EmptyDataError")
    ELSE IF \E i \in 3..Len(f.lines) :
                Width(f, i, sep) > Larger(Width(f, 1, sep), Width(f, 2, sep))
         THEN Failure("ParserError")
    ELSE [ok |-> TRUE, sep |-> sep, header |-> Split(f.lines[1], sep),
          nrows |-> Len(f.lines) - 1]

\* df.shape[1]
NumColumns(t) == Len(t.header)

None == [ok |-> FALSE]

\* variant: the comma delimiter is never tried
NeedsCommaNever(t) == FALSE

\* the comma parse is tried when the semicolon parse has one column
NeedsComma(t) == NumColumns(t) = 1

LoadCsv(f) ==
    LET semi == ReadCsv(f, ";")
        comma == ReadCsv(f, ",")
    IN  IF ~semi.ok THEN None
        ELSE IF NeedsComma(semi)
             THEN (IF ~comma.ok THEN None ELSE comma)
             ELSE semi

----------------------------------------------------------------------------
(* DataFrame.merge(right, how='left'): every left row is kept, in order;   *)
(* it is paired with each right row whose key equals its own (in the       *)
(* right table's order), or with missing values when there is none.        *)
(* pandas matches a missing key with a missing key.                        *)

\* variant: an inner join, which drops the left rows without a match
MergeInner(left, right, lkey, rkey, rcols) ==
    LET Pair(l, r) == [c \in (DOMAIN l) \cup rcols |->
                         IF c \in DOMAIN l THEN l[c] ELSE r[c]]
        Matches(l) == SelectSeq(right, LAMBDA r : r[rkey] = l[lkey])
    IN  Flatten([i \in 1..Len(left) |->
                   [j \in 1..Len(Matches(left[i])) |->
                       Pair(left[i], Matches(left[i])[j])]])

MergeLeft(left, right, lkey, rkey, rcols) ==
    LET Pair(l, r) == [c \in (DOMAIN l) \cup rcols |->
                         IF c \in DOMAIN l THEN l[c] ELSE r[c]]
        Unmatched(l) == [c \in (DOMAIN l) \cup rcols |->
                         IF c \in DOMAIN l THEN l[c] ELSE Null]
        Matches(l) == SelectSeq(right, LAMBDA r : r[rkey] = l[lkey])
    IN  Flatten([i \in 1..Len(left) |->
                   LET m == Matches(left[i])
                   IN  IF m = <<>> THEN <<Unmatched(left[i])>>
                       ELSE [j \in 1..Len(m) |-> Pair(left[i], m[j])]])

----------------------------------------------------------------------------
(* recalculate_total_price(sales, products) *)

\* variant: the mask forgets the rows whose TotalPrice is zero
NeedsRecalcNullOnly(row) == IsNull(row.TotalPrice)

\* variant: the mask selects every row
NeedsRecalcAlways(row) == TRUE

\* mask = (sales['TotalPrice'].isna()) | (sales['TotalPrice'] == 0)
NeedsRecalc(row) == IsNull(row.TotalPrice) \/ row.TotalPrice = Cell(0)

RecalculateTotalPrice(s, p) ==
    LET merged == MergeLeft(s, p, "ProductID", "ProductID",
                            {"ProductID", "Price"})
        filled == [i \in 1..Len(merged) |->
                     [merged[i] EXCEPT !.Price = FillNa(@, 0)]]
    IN  [i \in 1..Len(filled) |->
           IF NeedsRecalc(filled[i])
           THEN [filled[i] EXCEPT !.TotalPrice =
                    CellSub(CellMul(filled[i].Price, filled[i].Quantity),
                            filled[i].Discount)]
           ELSE filled[i]]

----------------------------------------------------------------------------
(* The five table builders.  Each one recalculates the price, left-joins   *)
(* its dimension tables one statement at a time and saves a column subset. *)

NotWritten == [written |-> FALSE, rows |-> <<>>]

Written(t) == [written |-> TRUE, rows |-> t]

Builders == {"rfm", "product", "forecast", "employee", "geo"}

\* the statements of each builder after its loads, in order
Steps(b) ==
    CASE b = "rfm"      -> <<"recalc", "customers", "cities", "countries", "save">>
      [] b = "product"  -> <<"recalc", "prodcat", "categories", "save">>
      [] b = "forecast" -> <<"recalc", "save">>
      [] b = "employee" -> <<"recalc", "employees", "save">>
      [] b = "geo"      -> <<"recalc", "customers", "cities", "countries", "save">>

\* the columns each builder hands to save_csv
OutputColumns(b) ==
    CASE b = "rfm"      -> {"CustomerID", "TotalPrice", "SalesDate", "CityID",
                            "CountryID", "CountryName"}
      [] b = "product"  -> {"SalesID", "CustomerID", "ProductID", "CategoryID",
                            "CategoryName", "TotalPrice"}
      [] b = "forecast" -> {"SalesID", "SalesDate", "TotalPrice", "Quantity"}
      [] b = "employee" -> {"SalesID", "SalesPersonID", "FirstName", "LastName",
                            "HireDate", "TotalPrice"}
      [] b = "geo"      -> {"SalesID", "SalesDate", "TotalPrice", "CustomerID",
                            "CityID", "CityName", "CountryID", "CountryName"}

\* the columns of cities each builder joins
CityColumns(b) ==
    IF b = "geo" THEN {"CityID", "CountryID", "CityName"}
    ELSE {"CityID", "CountryID"}

BuildIdle ==
    /\ builder = "none"
    /\ frame = <<>>
    /\ unique = TRUE
    /\ csv = NotWritten

----------------------------------------------------------------------------
(* calculate_rfm(df).  A SalesDate is read as text, a day and a half of    *)
(* the day; pd.to_datetime turns it into a count of half days, and         *)
(* Timedelta.days is the whole number of days in a difference.             *)

Halves == {0, 1}

ToDatetime(c) ==
    IF IsNull(c) THEN Null
    ELSE Cell(Val(c).day * Cardinality(Halves) + Val(c).half)

Days(delta) == IF IsNull(delta) THEN Null
               ELSE Cell(Val(delta) \div Cardinality(Halves))

RECURSIVE SetMax(_)
SetMax(S) == LET x == CHOOSE y \in S : TRUE
             IN  IF S = {x} THEN x
                 ELSE LET m == SetMax(S \ {x}) IN IF x > m THEN x ELSE m

RECURSIVE SetMin(_)
SetMin(S) == LET x == CHOOSE y \in S : TRUE
             IN  IF S = {x} THEN x
                 ELSE LET m == SetMin(S \ {x}) IN IF x < m THEN x ELSE m

RECURSIVE SortedSeq(_)
SortedSeq(S) == IF S = {} THEN <<>>
                ELSE LET m == SetMin(S) IN <<m>> \o SortedSeq(S \ {m})

\* the values a column holds, missing ones left out
Present(t, col) == {Val(t[i][col]) : i \in {j \in 1..Len(t) : ~IsNull(t[j][col])}}

\* Series.max(): missing values are skipped; missing when nothing is left
ColMax(t, col) == IF Present(t, col) = {} THEN Null ELSE Cell(SetMax(Present(t, col)))

\* Series.min()
ColMin(t, col) == IF Present(t, col) = {} THEN Null ELSE Cell(SetMin(Present(t, col)))

\* 'count': the number of values that are not missing
ColCount(t, col) == Cardinality({i \in 1..Len(t) : ~IsNull(t[i][col])})

\* 'sum': missing values are skipped
RECURSIVE ColSum(_, _)
ColSum(t, col) ==
    IF t = <<>> THEN 0
    ELSE (IF IsNull(Head(t)[col]) THEN 0 ELSE Val(Head(t)[col])) + ColSum(Tail(t), col)

\* df['SalesDate'] = pd.to_datetime(df['SalesDate'])
ConvertDates(t) == [i \in 1..Len(t) |-> [t[i] EXCEPT !.SalesDate = ToDatetime(@)]]

\* the rows of one groupby('CustomerID') group
Group(t, cust) == SelectSeq(t, LAMBDA r : r.CustomerID = Cell(cust))

\* variant: the days are counted from the customer's own latest date
RecencyFromOwnLatest(reference_date, g) ==
    Days(CellSub(ColMax(g, "SalesDate"), ColMax(g, "SalesDate")))

\* lambda x: (reference_date - x.max()).days
Recency(reference_date, g) == Days(CellSub(reference_date, ColMax(g, "SalesDate")))

Frequency(g) == ColCount(g, "SalesDate")

\* variant: only the rows that carry a date are summed
MonetaryOfDated(g) ==
    ColSum(SelectSeq(g, LAMBDA r : ~IsNull(r.SalesDate)), "TotalPrice")

Monetary(g) == ColSum(g, "TotalPrice")

\* t is df after the conversion of its dates; groupby drops the rows
\* without a CustomerID and orders the groups by CustomerID
CalculateRfm(t) ==
    LET reference_date == ColMax(t, "SalesDate")
        custs == SortedSeq(Present(t, "CustomerID"))
    IN  [k \in 1..Len(custs) |->
           LET g == Group(t, custs[k])
           IN  [CustomerID |-> Cell(custs[k]),
                Recency |-> Recency(reference_date, g),
                Frequency |-> Cell(Frequency(g)),
                Monetary |-> Cell(Monetary(g))]]

----------------------------------------------------------------------------
(* cluster_customers(rfm, n_clusters) *)

DefaultClusters == 4

RfmColumns == {"Recency", "Frequency", "Monetary"}

\* (rfm - rfm.min()) / (rfm.max() - rfm.min()): a quotient is kept as its
\* numerator and denominator; 0 / 0 and anything missing are missing
ScaleCell(c, lo, hi) ==
    IF IsNull(c) \/ IsNull(lo) \/ IsNull(hi) \/ lo = hi THEN Null
    ELSE Cell([num |-> Val(c) - Val(lo), den |-> Val(hi) - Val(lo)])

Scale(t) ==
    [i \in 1..Len(t) |->
        [c \in RfmColumns |-> ScaleCell(t[i][c], ColMin(t, c), ColMax(t, c))]]

HasMissing(x) == \E i \in 1..Len(x) : \E c \in DOMAIN x[i] : IsNull(x[i][c])

\* KMeans(n_clusters=k).fit_predict(x) refuses missing values and fewer
\* samples than clusters
KMeansRaises(x, k) == HasMissing(x) \/ Len(x) < k

\* the labels fit_predict may hand back, one per row
KMeansLabels(x, k) == [1..Len(x) -> 0..(k - 1)]

NotCalled == [status |-> "none", table |-> <<>>]

ValueError == [status |-> "ValueError", table |-> <<>>]

Returned(t) == [status |-> "returned", table |-> t]

\* rfm['Cluster'] = labels
WithCluster(t, labels) ==
    [i \in 1..Len(t) |->
        [c \in (DOMAIN t[i]) \cup {"Cluster"} |->
            IF c = "Cluster" THEN Cell(labels[i]) ELSE t[i][c]]]

rfmVars == <<df, rfm, n_clusters, segmented>>

priceVars == <<sales, products, priced>>

loadVars == <<file, loaded, fs, outputs>>

LoadIdle ==
    /\ file = NoFile
    /\ loaded = None
    /\ fs = <<>>
    /\ outputs = {}

buildVars == <<builder, frame, unique, csv>>

PriceIdle ==
    /\ sales = <<>>
    /\ products = <<>>
    /\ priced = <<>>

RfmIdle ==
    /\ df = <<>>
    /\ rfm = <<>>
    /\ n_clusters = 0
    /\ segmented = NotCalled

----------------------------------------------------------------------------
(* Inputs of the price recalculation *)

MaxSales == 2

MaxProducts == 2

Keys == {Cell(1), Cell(2)}

SalesRows ==
    [CustomerID : {Cell(1)}, ProductID : Keys,
     Quantity : {Cell(2), Null}, Discount : {Cell(1)},
     TotalPrice : {Null, Cell(0), Cell(9)}]

ProductRows == [ProductID : Keys, Price : {Null, Cell(4)}]

\* SalesID is the row's own identifier
WithSalesID(rows) ==
    [i \in 1..Len(rows) |->
        [c \in (DOMAIN rows[i]) \cup {"SalesID"} |->
            IF c = "SalesID" THEN Cell(i) ELSE rows[i][c]]]

PriceInit ==
    /\ pc = "start"
    /\ \E rows \in SeqsUpTo(SalesRows, MaxSales) : sales = WithSalesID(rows)
    /\ products \in SeqsUpTo(ProductRows, MaxProducts)
    /\ priced = <<>>
    /\ BuildIdle
    /\ RfmIdle
    /\ LoadIdle

Recalculate ==
    /\ pc = "start"
    /\ priced' = RecalculateTotalPrice(sales, products)
    /\ pc' = "done"
    /\ UNCHANGED <<sales, products, builder, frame, unique, csv>>
    /\ UNCHANGED <<rfmVars, loadVars>>

PriceNext == Recalculate

SpecPrice == PriceInit /\ [][PriceNext]_vars

\* the rows of the result that stem from the sales row with identifier id
CopiesOf(id) == SelectSeq(priced, LAMBDA r : r.SalesID = id)

\* the product rows that carry the ProductID of sales row s
ProductsOf(s) == SelectSeq(products, LAMBDA q : q.ProductID = s.ProductID)

\* the unit prices merged onto sales row s: one per matching product, a
\* missing price counted as 0, and 0 alone when no product matches
MergedPrices(s) ==
    IF ProductsOf(s) = <<>> THEN <<0>>
    ELSE [j \in 1..Len(ProductsOf(s)) |->
            IF ProductsOf(s)[j].Price = Null THEN 0 ELSE ProductsOf(s)[j].Price[1]]

NullOrZero(s) == s.TotalPrice = Null \/ s.TotalPrice = <<0>>

(* C1: after recalculate_total_price, every sales row whose TotalPrice was *)
(* null or zero carries, in each of its merged rows, TotalPrice = Price *  *)
(* Quantity - Discount, with the merged product price and Price 0 when no  *)
(* product matches (a missing Quantity makes the result missing).          *)
C1_RecalculatedTotal ==
    pc = "done" =>
      \A i \in 1..Len(sales) :
        LET s == sales[i]
        IN  NullOrZero(s) =>
              /\ Len(CopiesOf(s.SalesID)) = Len(MergedPrices(s))
              /\ \A j \in 1..Len(MergedPrices(s)) :
                    /\ CopiesOf(s.SalesID)[j].Price = <<MergedPrices(s)[j]>>
                    /\ CopiesOf(s.SalesID)[j].TotalPrice =
                         IF s.Quantity = Null \/ s.Discount = Null THEN Null
                         ELSE <<MergedPrices(s)[j] * s.Quantity[1] - s.Discount[1]>>

\* a zero total recomputed from a matched price, a null total recomputed
\* from an unmatched product
C1_Witness ==
    /\ pc = "done"
    /\ \E i \in 1..Len(sales) :
          /\ sales[i].TotalPrice = <<0>>
          /\ sales[i].Quantity = <<2>>
          /\ MergedPrices(sales[i]) = <<4>>
          /\ CopiesOf(sales[i].SalesID)[1].TotalPrice = <<7>>
    /\ \E i \in 1..Len(sales) :
          /\ sales[i].TotalPrice = Null
          /\ ProductsOf(sales[i]) = <<>>
          /\ CopiesOf(sales[i].SalesID)[1].TotalPrice = <<0 - 1>>

\* row r is sales row s with a Price column added and, at most, its
\* null-or-zero TotalPrice rewritten
IsCopyOf(r, s) ==
    /\ DOMAIN r = (DOMAIN s) \cup {"Price"}
    /\ \A c \in (DOMAIN s) \ {"TotalPrice"} : r[c] = s[c]
    /\ ~NullOrZero(s) => r.TotalPrice = s.TotalPrice

(* C10 as stated: the result is the sales table row for row, with only the *)
(* Price column added and the null-or-zero totals rewritten.               *)
C10_Original ==
    pc = "done" =>
      /\ Len(priced) = Len(sales)
      /\ \A i \in 1..Len(sales) : IsCopyOf(priced[i], sales[i])

(* C10: every row of the result is a copy of one sales row with a Price    *)
(* column added: all its original columns are unchanged, and so is its     *)
(* TotalPrice unless that was null or zero.  The copies keep the order of  *)
(* the sales rows, every sales row has one copy per matching product row   *)
(* (one when none matches), hence exactly one when no ProductID occurs     *)
(* twice in products.                                                      *)
C10_FrameOfRecalculation ==
    pc = "done" =>
      /\ \A k \in 1..Len(priced) :
            \E i \in 1..Len(sales) :
              /\ priced[k].SalesID = sales[i].SalesID
              /\ IsCopyOf(priced[k], sales[i])
      /\ \A k, m \in 1..Len(priced) :
            k <= m => priced[k].SalesID[1] <= priced[m].SalesID[1]
      /\ \A i \in 1..Len(sales) :
            Len(CopiesOf(sales[i].SalesID)) = Len(MergedPrices(sales[i]))
      /\ (\A a, b \in 1..Len(products) :
             products[a].ProductID = products[b].ProductID => a = b)
          => /\ Len(priced) = Len(sales)
             /\ \A i \in 1..Len(sales) : IsCopyOf(priced[i], sales[i])

\* two sales rows, one kept as it was and one rewritten, products unique
C10_Witness ==
    /\ pc = "done"
    /\ Len(sales) = 2
    /\ Len(priced) = 2
    /\ Len(products) = 2
    /\ products[1].ProductID # products[2].ProductID
    /\ sales[1].TotalPrice = <<9>>
    /\ priced[1].TotalPrice = <<9>>
    /\ sales[2].TotalPrice = <<0>>
    /\ priced[2].TotalPrice # <<0>>

----------------------------------------------------------------------------
(* Inputs and statements of the table builders *)

MaxDim == 2

\* the sales rows a builder is run on: the foreign keys it joins on vary
BuildSalesRows(b) ==
    [CustomerID : IF b \in {"rfm", "geo"} THEN Keys ELSE {Cell(1)},
     ProductID : Keys,
     SalesPersonID : IF b = "employee" THEN Keys ELSE {Cell(1)},
     Quantity : {Cell(2)}, Discount : {Cell(1)}, TotalPrice : {Cell(0)},
     SalesDate : {Cell(0)}]

ProductTables ==
    SeqsUpTo([ProductID : Keys, Price : {Cell(4)}, CategoryID : {Cell(1)}], MaxDim)

CustomerTables == SeqsUpTo([CustomerID : Keys, CityID : {Cell(1)}], MaxDim)

CityTables ==
    SeqsUpTo([CityID : Keys, CountryID : {Cell(1)}, CityName : {Cell("city")}],
             MaxDim)

CountryTables ==
    SeqsUpTo([CountryID : Keys, CountryName : {Cell("country")}], MaxDim)

CategoryTables ==
    SeqsUpTo([CategoryID : Keys, CategoryName : {Cell("category")}], MaxDim)

EmployeeTables ==
    SeqsUpTo([EmployeeID : Keys, FirstName : {Cell("first")},
              LastName : {Cell("last")}, HireDate : {Cell(0)}], MaxDim)

\* no two rows of t hold the same value in column key
UniqueKey(t, key) ==
    \A i, j \in 1..Len(t) : t[i][key] = t[j][key] => i = j

StepOf(b, k) == Steps(b)[k]

At(step) == /\ builder \in Builders
            /\ pc \in 1..Len(Steps(builder))
            /\ StepOf(builder, pc) = step

BuildInit ==
    /\ pc = 1
    /\ builder \in Builders
    /\ \E rows \in SeqsUpTo(BuildSalesRows(builder), MaxSales) :
          sales = WithSalesID(rows)
    /\ products = <<>>
    /\ priced = <<>>
    /\ frame = <<>>
    /\ unique = TRUE
    /\ csv = NotWritten
    /\ RfmIdle
    /\ LoadIdle

\* sales = recalculate_total_price(sales, products)
BuildRecalculate ==
    /\ At("recalc")
    /\ \E p \in ProductTables :
          /\ frame' = RecalculateTotalPrice(sales, p)
          /\ products' = IF builder = "product" THEN p ELSE <<>>
          /\ unique' = (unique /\ UniqueKey(p, "ProductID"))
    /\ pc' = pc + 1
    /\ UNCHANGED <<sales, priced, builder, csv>>
    /\ UNCHANGED <<rfmVars, loadVars>>

\* sales = sales.merge(customers[['CustomerID', 'CityID']], on='CustomerID', how='left')
MergeCustomers ==
    /\ At("customers")
    /\ \E t \in CustomerTables :
          /\ frame' = MergeLeft(frame, t, "CustomerID", "CustomerID",
                                {"CustomerID", "CityID"})
          /\ unique' = (unique /\ UniqueKey(t, "CustomerID"))
    /\ pc' = pc + 1
    /\ UNCHANGED <<sales, products, priced, builder, csv>>
    /\ UNCHANGED <<rfmVars, loadVars>>

\* sales = sales.merge(cities[[...]], on='CityID', how='left')
MergeCities ==
    /\ At("cities")
    /\ \E t \in CityTables :
          /\ frame' = MergeLeft(frame, t, "CityID", "CityID", CityColumns(builder))
          /\ unique' = (unique /\ UniqueKey(t, "CityID"))
    /\ pc' = pc + 1
    /\ UNCHANGED <<sales, products, priced, builder, csv>>
    /\ UNCHANGED <<rfmVars, loadVars>>

\* sales = sales.merge(countries[['CountryID', 'CountryName']], on='CountryID', how='left')
MergeCountries ==
    /\ At("countries")
    /\ \E t \in CountryTables :
          /\ frame' = MergeLeft(frame, t, "CountryID", "CountryID",
                                {"CountryID", "CountryName"})
          /\ unique' = (unique /\ UniqueKey(t, "CountryID"))
    /\ pc' = pc + 1
    /\ UNCHANGED <<sales, products, priced, builder, csv>>
    /\ UNCHANGED <<rfmVars, loadVars>>

\* sales = sales.merge(products[['ProductID', 'CategoryID']], on='ProductID', how='left')
MergeProductCategory ==
    /\ At("prodcat")
    /\ frame' = MergeLeft(frame, products, "ProductID", "ProductID",
                          {"ProductID", "CategoryID"})
    /\ pc' = pc + 1
    /\ UNCHANGED <<sales, products, priced, builder, unique, csv>>
    /\ UNCHANGED <<rfmVars, loadVars>>

\* sales = sales.merge(categories[['CategoryID', 'CategoryName']], on='CategoryID', how='left')
MergeCategories ==
    /\ At("categories")
    /\ \E t \in CategoryTables :
          /\ frame' = MergeLeft(frame, t, "CategoryID", "CategoryID",
                                {"CategoryID", "CategoryName"})
          /\ unique' = (unique /\ UniqueKey(t, "CategoryID"))
    /\ pc' = pc + 1
    /\ UNCHANGED <<sales, products, priced, builder, csv>>
    /\ UNCHANGED <<rfmVars, loadVars>>

\* sales = sales.merge(employees[[...]], left_on='SalesPersonID', right_on='EmployeeID', how='left')
MergeEmployees ==
    /\ At("employees")
    /\ \E t \in EmployeeTables :
          /\ frame' = MergeLeft(frame, t, "SalesPersonID", "EmployeeID",
                                {"EmployeeID", "FirstName", "LastName", "HireDate"})
          /\ unique' = (unique /\ UniqueKey(t, "EmployeeID"))
    /\ pc' = pc + 1
    /\ UNCHANGED <<sales, products, priced, builder, csv>>
    /\ UNCHANGED <<rfmVars, loadVars>>

\* save_csv(sales[[...]], ...)
SaveCsv ==
    /\ At("save")
    /\ csv' = Written(Project(frame, OutputColumns(builder)))
    /\ pc' = pc + 1
    /\ UNCHANGED <<sales, products, priced, builder, frame, unique>>
    /\ UNCHANGED <<rfmVars, loadVars>>

BuildNext ==
    \/ BuildRecalculate
    \/ MergeCustomers
    \/ MergeCities
    \/ MergeCountries
    \/ MergeProductCategory
    \/ MergeCategories
    \/ MergeEmployees
    \/ SaveCsv

SpecBuild == BuildInit /\ [][BuildNext]_vars

BuildDone == builder \in Builders /\ pc = Len(Steps(builder)) + 1

(* C2 as stated: whatever the input tables hold, a builder writes at most  *)
(* as many rows as the sales table has.                                    *)
C2_Original ==
    BuildDone => csv.written /\ Len(csv.rows) <= Len(sales)

(* C2: a builder never writes fewer rows than the sales table has, and it  *)
(* writes exactly as many when no joined table (products, customers,       *)
(* cities, countries, categories, employees) holds a join key twice.       *)
C2_RowCount ==
    BuildDone =>
      /\ csv.written
      /\ Len(csv.rows) >= Len(sales)
      /\ unique => Len(csv.rows) = Len(sales)

\* the geographical builder has joined two sales rows, one through every
\* table and one with no customer, and written two rows
C2_Witness ==
    /\ BuildDone
    /\ builder = "geo"
    /\ unique
    /\ Len(sales) = 2
    /\ Len(csv.rows) = 2
    /\ csv.rows[1].CountryName # Null
    /\ csv.rows[2].CityID = Null

----------------------------------------------------------------------------
(* Inputs and run of calculate_rfm *)

MaxRows == 3

Dates == {Cell([day |-> 0, half |-> 0]), Cell([day |-> 0, half |-> 1]),
          Cell([day |-> 1, half |-> 0])}

RfmInputRows ==
    [CustomerID : {Cell(1), Cell(2), Null},
     SalesDate : Dates \cup {Null},
     TotalPrice : {Cell(2), Null}]

RfmInit ==
    /\ pc = "start"
    /\ df \in SeqsUpTo(RfmInputRows, MaxRows)
    /\ rfm = <<>>
    /\ n_clusters = 0
    /\ segmented = NotCalled
    /\ PriceIdle
    /\ BuildIdle
    /\ LoadIdle

\* rfm = calculate_rfm(df); the dates of df are converted in place
CalculateRfmStep ==
    /\ pc = "start"
    /\ df' = ConvertDates(df)
    /\ rfm' = CalculateRfm(ConvertDates(df))
    /\ pc' = "done"
    /\ UNCHANGED <<n_clusters, segmented>>
    /\ UNCHANGED <<priceVars, buildVars, loadVars>>

RfmNext == CalculateRfmStep

SpecRfm == RfmInit /\ [][RfmNext]_vars

\* the indexes of the input rows that carry CustomerID c
RowsOf(c) == {i \in 1..Len(df) : df[i].CustomerID = c}

\* the indexes of the input rows of customer c that carry a date
DatedRowsOf(c) == {i \in RowsOf(c) : df[i].SalesDate # Null}

DatedRows == {i \in 1..Len(df) : df[i].SalesDate # Null}

\* i holds the latest date among the rows I
Latest(i, I) == i \in I /\ \A j \in I : df[j].SalesDate[1] <= df[i].SalesDate[1]

\* the table has one row per CustomerID of the input, in ascending order
OneRowPerCustomer ==
    /\ \A i \in 1..Len(df) :
          df[i].CustomerID # Null => \E k \in 1..Len(rfm) : rfm[k].CustomerID = df[i].CustomerID
    /\ \A k \in 1..Len(rfm) : RowsOf(rfm[k].CustomerID) # {}
    /\ \A k, m \in 1..Len(rfm) : k < m => rfm[k].CustomerID[1] < rfm[m].CustomerID[1]

(* C4 as stated: measured at the customer's own latest SalesDate, the      *)
(* Recency of every customer in the table is zero.                         *)
C4_Original ==
    pc = "done" => \A k \in 1..Len(rfm) : rfm[k].Recency = <<0>>

(* C4: the Recency of a customer is the number of whole days from that     *)
(* customer's latest SalesDate to the latest SalesDate of the whole input. *)
(* It is never negative, it is zero exactly when the customer's latest     *)
(* date lies less than a day before the latest date of the input (so for   *)
(* the customer who holds that date), and it is missing for a customer     *)
(* none of whose rows carries a date.                                      *)
C4_RecencyFromReferenceDate ==
    pc = "done" =>
      /\ OneRowPerCustomer
      /\ \A k \in 1..Len(rfm) :
            LET c == rfm[k].CustomerID
            IN  /\ DatedRowsOf(c) = {} <=> rfm[k].Recency = Null
                /\ \A own \in DatedRowsOf(c) : \A ref \in DatedRows :
                      (Latest(own, DatedRowsOf(c)) /\ Latest(ref, DatedRows)) =>
                        LET gap == df[ref].SalesDate[1] - df[own].SalesDate[1]
                            n == rfm[k].Recency[1]
                        IN  /\ n >= 0
                            /\ n * Cardinality(Halves) <= gap
                            /\ gap < (n + 1) * Cardinality(Halves)
                            /\ n = 0 <=> gap < Cardinality(Halves)

\* one customer bought last on the latest day (Recency 0), another a day
\* before (Recency 1)
C4_Witness ==
    /\ pc = "done"
    /\ Len(rfm) = 2
    /\ rfm[1].Recency = <<1>>
    /\ rfm[2].Recency = <<0>>

(* C5: the Frequency of every customer in the table equals the number of   *)
(* input rows that carry the CustomerID, rows without a SalesDate          *)
(* included.                                                               *)
C5_FrequencyCountsRows ==
    pc = "done" =>
      \A k \in 1..Len(rfm) :
        rfm[k].Frequency = <<Cardinality(RowsOf(rfm[k].CustomerID))>>

RECURSIVE PriceSum(_)
PriceSum(I) ==
    IF I = {} THEN 0
    ELSE LET i == CHOOSE j \in I : TRUE
         IN  (IF df[i].TotalPrice = Null THEN 0 ELSE df[i].TotalPrice[1])
             + PriceSum(I \ {i})

RECURSIVE MonetarySum(_)
MonetarySum(K) ==
    IF K = {} THEN 0
    ELSE LET k == CHOOSE j \in K : TRUE
         IN  rfm[k].Monetary[1] + MonetarySum(K \ {k})

(* C6: the Monetary of every customer in the table is the sum of           *)
(* TotalPrice over all input rows that carry the CustomerID (a missing     *)
(* TotalPrice adds nothing), and the Monetary values add up to the sum of  *)
(* TotalPrice over all input rows that have a CustomerID.                  *)
C6_MonetaryIsSum ==
    pc = "done" =>
      /\ OneRowPerCustomer
      /\ \A k \in 1..Len(rfm) :
            rfm[k].Monetary = <<PriceSum(RowsOf(rfm[k].CustomerID))>>
      /\ MonetarySum(1..Len(rfm)) =
            PriceSum({i \in 1..Len(df) : df[i].CustomerID # Null})

\* a customer with a dated and an undated priced row
\* and a row without CustomerID that is left out of every sum
C6_Witness ==
    /\ pc = "done"
    /\ Len(df) = 3
    /\ Len(rfm) = 1
    /\ Cardinality(RowsOf(rfm[1].CustomerID)) = 2
    /\ Cardinality(DatedRowsOf(rfm[1].CustomerID)) = 1
    /\ rfm[1].Monetary = <<4>>
    /\ \E i \in 1..Len(df) : df[i].CustomerID = Null /\ df[i].TotalPrice # Null

----------------------------------------------------------------------------
(* Inputs and run of cluster_customers *)

MaxCustomers == 3

RfmTableRows ==
    [Recency : {Cell(0), Cell(1), Null},
     Frequency : {Cell(1), Cell(2)},
     Monetary : {Cell(0), Cell(3)}]

\* the index of an RFM table is the CustomerID
WithCustomerID(rows) ==
    [i \in 1..Len(rows) |->
        [c \in (DOMAIN rows[i]) \cup {"CustomerID"} |->
            IF c = "CustomerID" THEN Cell(i) ELSE rows[i][c]]]

ClusterInit ==
    /\ pc = "start"
    /\ df = <<>>
    /\ \E rows \in SeqsUpTo(RfmTableRows, MaxCustomers) : rfm = WithCustomerID(rows)
    /\ n_clusters \in 1..DefaultClusters
    /\ segmented = NotCalled
    /\ PriceIdle
    /\ BuildIdle
    /\ LoadIdle

\* fit_predict raises: the exception leaves cluster_customers
ClusterRaise ==
    /\ pc = "start"
    /\ KMeansRaises(Scale(Project(rfm, RfmColumns)), n_clusters)
    /\ segmented' = ValueError
    /\ pc' = "raised"
    /\ UNCHANGED <<df, rfm, n_clusters>>
    /\ UNCHANGED <<priceVars, buildVars, loadVars>>

\* fit_predict returns labels: rfm gains the Cluster column and is returned
ClusterReturn ==
    /\ pc = "start"
    /\ ~KMeansRaises(Scale(Project(rfm, RfmColumns)), n_clusters)
    /\ \E labels \in KMeansLabels(Scale(Project(rfm, RfmColumns)), n_clusters) :
          /\ rfm' = WithCluster(rfm, labels)
          /\ segmented' = Returned(WithCluster(rfm, labels))
    /\ pc' = "done"
    /\ UNCHANGED <<df, n_clusters>>
    /\ UNCHANGED <<priceVars, buildVars, loadVars>>

ClusterNext == ClusterRaise \/ ClusterReturn

SpecCluster == ClusterInit /\ [][ClusterNext]_vars

(* C7: for any RFM table and cluster count k, cluster_customers returns a  *)
(* table in which every customer carries a Cluster label, an integer from  *)
(* 0 to k - 1, also when a column holds one value for all customers or     *)
(* there are fewer than k customers.                                       *)
C7_LabelsInRange ==
    pc # "start" =>
      /\ segmented.status = "returned"
      /\ Len(segmented.table) = Len(rfm)
      /\ \A i \in 1..Len(segmented.table) :
            /\ segmented.table[i].CustomerID = rfm[i].CustomerID
            /\ segmented.table[i].Cluster[1] \in 0..(n_clusters - 1)

----------------------------------------------------------------------------
(* Inputs and run of load_csv *)

MaxLines == 3

MaxLineLen == 2

Tokens == {"a", ";", ","}

Lines == UNION {[1..n -> Tokens] : n \in 1..MaxLineLen}

LoadInit ==
    /\ pc = "start"
    /\ \/ file = NoFile
       \/ \E k \in 0..MaxLines : \E ls \in [1..k -> Lines] : file = FileOf(ls)
    /\ loaded = None
    /\ fs = <<>>
    /\ outputs = {}
    /\ PriceIdle
    /\ BuildIdle
    /\ RfmIdle

LoadCsvStep ==
    /\ pc = "start"
    /\ loaded' = LoadCsv(file)
    /\ pc' = "done"
    /\ UNCHANGED <<file, fs, outputs>>
    /\ UNCHANGED <<priceVars, buildVars, rfmVars>>

LoadNext == LoadCsvStep

SpecLoad == LoadInit /\ [][LoadNext]_vars

\* how often token tok occurs in a line
Count(line, tok) == Cardinality({i \in 1..Len(line) : line[i] = tok})

\* every line of f is cut into the same number of columns, more than one,
\* by the delimiter sep, and the other delimiter other occurs nowhere
SeparatedBy(f, sep, other) ==
    /\ f.exists
    /\ f.lines # <<>>
    /\ Count(f.lines[1], sep) >= 1
    /\ \A i \in 1..Len(f.lines) :
          /\ Count(f.lines[i], sep) = Count(f.lines[1], sep)
          /\ Count(f.lines[i], other) = 0

\* f holds no delimiter at all
SingleColumn(f) ==
    /\ f.exists
    /\ f.lines # <<>>
    /\ \A i \in 1..Len(f.lines) :
          Count(f.lines[i], ";") = 0 /\ Count(f.lines[i], ",") = 0

(* C8: load_csv tries the semicolon first and falls back to the comma: a   *)
(* semicolon-separated file comes back as its semicolon parse, a           *)
(* comma-separated file as its comma parse, and the comma parse is what    *)
(* comes back exactly when the semicolon parse has a single column, so a   *)
(* file of one column comes back as its comma parse; a file that is absent *)
(* or empty gives None.                                                    *)
C8_DelimiterDetection ==
    pc = "done" =>
      /\ SeparatedBy(file, ";", ",") =>
            /\ loaded.ok /\ loaded.sep = ";"
            /\ Len(loaded.header) = Count(file.lines[1], ";") + 1
            /\ loaded.nrows = Len(file.lines) - 1
      /\ SeparatedBy(file, ",", ";") =>
            /\ loaded.ok /\ loaded.sep = ","
            /\ Len(loaded.header) = Count(file.lines[1], ",") + 1
            /\ loaded.nrows = Len(file.lines) - 1
      /\ SingleColumn(file) =>
            loaded.ok /\ loaded.sep = "," /\ Len(loaded.header) = 1
      /\ loaded.ok =>
            /\ loaded.sep = "," <=> Count(file.lines[1], ";") = 0
            /\ loaded.sep = ";" <=> Count(file.lines[1], ";") >= 1
      /\ (~file.exists \/ file.lines = <<>>) => loaded = None

\* a two-line comma-separated file has been loaded with two columns
C8_Witness ==
    /\ pc = "done"
    /\ SeparatedBy(file, ",", ";")
    /\ Len(file.lines) = 2
    /\ loaded.ok
    /\ loaded.sep = ","
    /\ Len(loaded.header) = 2
    /\ loaded.nrows = 1

----------------------------------------------------------------------------
(* main() of the preprocessing script: the five builders in order.  A      *)
(* builder loads its source files, returns when one of them is None,       *)
(* raises KeyError when a loaded table lacks a column it reads, and        *)
(* otherwise writes its CSV.                                               *)

Order == <<"rfm", "product", "forecast", "employee", "geo">>

Sources == {"sales", "customers", "cities", "countries", "products",
            "categories", "employees"}

\* variant: the forecasting builder also asks for the categories table
NeedsCategories(b) ==
    CASE b = "rfm"      -> {"sales", "customers", "cities", "countries", "products"}
      [] b = "product"  -> {"sales", "products", "categories"}
      [] b = "forecast" -> {"sales", "products", "categories"}
      [] b = "employee" -> {"sales", "employees", "products"}
      [] b = "geo"      -> {"sales", "customers", "cities", "countries", "products"}

\* the source files each builder loads
Needs(b) ==
    CASE b = "rfm"      -> {"sales", "customers", "cities", "countries", "products"}
      [] b = "product"  -> {"sales", "products", "categories"}
      [] b = "forecast" -> {"sales", "products"}
      [] b = "employee" -> {"sales", "employees", "products"}
      [] b = "geo"      -> {"sales", "customers", "cities", "countries", "products"}

PriceColumns == {"ProductID", "TotalPrice", "Quantity", "Discount"}

\* the columns of table src that builder b reads
Uses(b, src) ==
    CASE src = "sales" ->
           PriceColumns \cup
           (CASE b = "rfm"      -> {"CustomerID", "SalesDate"}
              [] b = "product"  -> {"SalesID", "CustomerID"}
              [] b = "forecast" -> {"SalesID", "SalesDate"}
              [] b = "employee" -> {"SalesID", "SalesPersonID"}
              [] b = "geo"      -> {"SalesID", "SalesDate", "CustomerID"})
      [] src = "products" ->
           IF b = "product" THEN {"ProductID", "Price", "CategoryID"}
           ELSE {"ProductID", "Price"}
      [] src = "customers"  -> {"CustomerID", "CityID"}
      [] src = "cities"     -> CityColumns(b)
      [] src = "countries"  -> {"CountryID", "CountryName"}
      [] src = "categories" -> {"CategoryID", "CategoryName"}
      [] src = "employees"  -> {"EmployeeID", "FirstName", "LastName", "HireDate"}

\* the column names of a loaded table; None has no column to read
Names(t) ==
    IF ~t.ok THEN {}
    ELSE {t.header[i][1] : i \in {j \in 1..Len(t.header) : Len(t.header[j]) = 1}}

LoadAll(b) == [src \in Needs(b) |-> LoadCsv(fs[src])]

\* variant: only the sales table is tested for None
SomeNoneSalesOnly(b) == ~LoadAll(b)["sales"].ok

\* if sales is None or ... is None
SomeNone(b) == \E src \in Needs(b) : ~LoadAll(b)[src].ok

LacksColumn(b) == \E src \in Needs(b) : ~(Uses(b, src) \subseteq Names(LoadAll(b)[src]))

\* the header line of a well-formed source file
HeaderOf(src) ==
    CASE src = "sales" -> <<"SalesID", "SalesPersonID", "CustomerID", "ProductID",
                            "Quantity", "Discount", "TotalPrice", "SalesDate">>
      [] src = "products"   -> <<"ProductID", "Price", "CategoryID">>
      [] src = "customers"  -> <<"CustomerID", "CityID">>
      [] src = "cities"     -> <<"CityID", "CityName", "CountryID">>
      [] src = "countries"  -> <<"CountryID", "CountryName">>
      [] src = "categories" -> <<"CategoryID", "CategoryName">>
      [] src = "employees"  -> <<"EmployeeID", "FirstName", "LastName", "HireDate">>

RECURSIVE Join(_, _)
Join(names, sep) ==
    IF Len(names) <= 1 THEN names
    ELSE <<Head(names), sep>> \o Join(Tail(names), sep)

Malformed == FileOf(<< <<"a">> >>)

\* the states a source file may be in: absent, empty, well formed with
\* either delimiter, or loadable without the columns the builders read
FileStates(src) ==
    {NoFile,
     FileOf(<<>>),
     FileOf(<<Join(HeaderOf(src), ";")>>),
     FileOf(<<Join(HeaderOf(src), ",")>>),
     Malformed}

\* the position of main after builder b returns
After(b) ==
    LET k == CHOOSE i \in 1..Len(Order) : Order[i] = b
    IN  IF k = Len(Order) THEN "done" ELSE Order[k + 1]

MainInit ==
    /\ pc = Order[1]
    /\ fs \in [sales : FileStates("sales"), customers : FileStates("customers"),
                cities : FileStates("cities"), countries : FileStates("countries"),
                products : FileStates("products"),
                categories : FileStates("categories"),
                employees : FileStates("employees")]
    /\ outputs = {}
    /\ file = NoFile
    /\ loaded = None
    /\ PriceIdle
    /\ BuildIdle
    /\ RfmIdle

Running(b) == pc = b

\* a load returned None: the builder returns at once
BuilderAborts ==
    /\ \E b \in Builders : Running(b) /\ SomeNone(b) /\ pc' = After(b)
    /\ UNCHANGED <<file, loaded, fs, outputs>>
    /\ UNCHANGED <<priceVars, buildVars, rfmVars>>

\* every load succeeded but a column is missing: KeyError leaves main
BuilderRaises ==
    /\ \E b \in Builders : Running(b) /\ ~SomeNone(b) /\ LacksColumn(b)
    /\ pc' = "KeyError"
    /\ UNCHANGED <<file, loaded, fs, outputs>>
    /\ UNCHANGED <<priceVars, buildVars, rfmVars>>

\* the builder joins its tables and writes its CSV
BuilderSaves ==
    /\ \E b \in Builders :
          /\ Running(b) /\ ~SomeNone(b) /\ ~LacksColumn(b)
          /\ outputs' = outputs \cup {b}
          /\ pc' = After(b)
    /\ UNCHANGED <<file, loaded, fs>>
    /\ UNCHANGED <<priceVars, buildVars, rfmVars>>

MainNext == BuilderAborts \/ BuilderRaises \/ BuilderSaves

SpecMain == MainInit /\ [][MainNext]_vars

MainDone == pc = "done"

\* the file of table src cannot be loaded: it is absent or empty
FailsToLoad(src) == ~fs[src].exists \/ fs[src].lines = <<>>

\* the source tables each builder is documented to load
Required ==
    [rfm      |-> {"sales", "customers", "cities", "countries", "products"},
     product  |-> {"sales", "products", "categories"},
     forecast |-> {"sales", "products"},
     employee |-> {"sales", "employees", "products"},
     geo      |-> {"sales", "customers", "cities", "countries", "products"}]

(* C3: when a source file a builder needs cannot be loaded, load_csv hands *)
(* back None for it and the builder returns: main moves on to the next     *)
(* builder, no exception is raised and no CSV is written.                  *)
C3_AbortOnLoadFailure ==
    [][\A b \in Builders :
         (pc = b /\ \E src \in Required[b] : FailsToLoad(src)) =>
            /\ \A src \in Required[b] : FailsToLoad(src) => LoadCsv(fs[src]) = None
            /\ pc' = After(b)
            /\ outputs' = outputs]_vars

\* the rfm builder has returned without output because customers.csv is
\* absent, although its sales table loaded
C3_Witness ==
    /\ pc = "product"
    /\ ~fs["customers"].exists
    /\ ~FailsToLoad("sales")
    /\ fs["sales"] # Malformed
    /\ "rfm" \notin outputs

Position(p) == IF p = "done" THEN Len(Order) + 1
               ELSE CHOOSE i \in 1..Len(Order) : Order[i] = p

WellFormed == \A src \in Sources : fs[src] # Malformed

(* C9: main runs the builders in the order rfm, product recommendation,    *)
(* sales forecasting, employee performance, geographical sales, every step *)
(* taking it from one builder to the next; a load failure never stops it:  *)
(* whichever files fail to load, no exception leaves main (as long as the  *)
(* files that do load hold their columns), and at its end a CSV has been   *)
(* written for exactly the builders whose source files all loaded.         *)
C9_MainRunsAllBuilders ==
    /\ [](/\ pc # "KeyError" =>
               \A b \in outputs : Position(b) < Position(pc)
          /\ WellFormed =>
               /\ pc # "KeyError"
               /\ \A b \in Builders :
                     Position(b) < Position(pc) =>
                       (b \in outputs <=> \A src \in Required[b] : ~FailsToLoad(src))
          /\ pc = "done" =>
               outputs = {b \in Builders :
                            \A src \in Required[b] : ~FailsToLoad(src)})
    /\ [][/\ pc # "done"
           /\ (pc' = "KeyError" \/ Position(pc') = Position(pc) + 1)]_vars

\* main is at its end after the loss of employees.csv and categories.csv:
\* the other three outputs are written
C9_Witness ==
    /\ pc = "done"
    /\ ~fs["employees"].exists
    /\ fs["categories"].lines = <<>>
    /\ outputs = {"rfm", "forecast", "geo"}

============================================================================
